---- MODULE Spec2Model ----
(***************************************************************************)
(* Campus energy pipeline of lab_5.py: ingestion of per-building CSV       *)
(* files (load_all_csvs), timestamp normalisation (preprocess) and the     *)
(* daily / weekly / whole-period aggregates, as main() runs them.          *)
(*                                                                         *)
(* Abstractions.  A timestamp is a calendar day, counted in days since     *)
(* Monday 2025-01-06 (time of day does not change a "D" or "W-MON" bin).   *)
(* kwh values are naturals, so sums are exact (no floating-point           *)
(* rounding).  A cell of a CSV file is the sequence of its comma-separated *)
(* fields; a column name is a sequence of tokens, so that "is the column   *)
(* timestamp" and "contains the substring timestamp" are different tests.  *)
(***************************************************************************)
EXTENDS Integers, Sequences, FiniteSets, TLC

\* ------------------------------------------------------------- bounds
\* Files in the data directory.
MaxFiles == 2
\* Rows of a normalized dataset handed directly to the aggregation engine.
MaxReadings == 3

\* ------------------------------------------------------ missing sentinels
\* pandas NaN, the result of to_numeric(errors="coerce") on unparseable text.
NaN == -1
\* pandas NaT, the result of to_datetime on an empty cell.
NaT == -1

\* ------------------------------------------------------------ sequences
RECURSIVE SumSeq(_)
SumSeq(s) == IF s = <<>> THEN 0 ELSE Head(s) + SumSeq(Tail(s))

RECURSIVE Flatten(_)
Flatten(ss) == IF ss = <<>> THEN <<>> ELSE Head(ss) \o Flatten(Tail(ss))

Range(s) == {s[i] : i \in DOMAIN s}

MinOf(S) == CHOOSE x \in S : \A y \in S : x <= y
MaxOf(S) == CHOOSE x \in S : \A y \in S : y <= x

\* ------------------------------------------------------------ file names
\* csv_path.stem.split("_") of the files the directory may hold.
StemPool == << <<"admin", "block", "2025-01">>,
               <<"admin", "block", "2025-02">>,
               <<"hostel">> >>

\* Group keys in the order groupby sorts them.
BuildingOrder == <<"admin", "hostel">>

BuildingOf(name_parts) ==
    IF Len(name_parts) > 0 THEN name_parts[1] ELSE "Unknown"

MonthOf(name_parts) ==
    IF Len(name_parts) > 1 THEN name_parts[Len(name_parts)] ELSE "Unknown"

\* ------------------------------------------------------------ cell texts
TsTexts  == {"2025-01-06", "2025-01-08", "", "soon"}
KwhTexts == {"2", "N/A"}

\* to_numeric as a bug would have it: unparseable text becomes 0.
ToNumericCoerceZero(cell) ==
    IF Len(cell) = 1 /\ cell[1] = "2" THEN 2 ELSE 0

\* pd.to_numeric(errors="coerce") on one cell: a number, or NaN.
ToNumeric(cell) ==
    IF Len(cell) = 1 /\ cell[1] = "2" THEN 2 ELSE NaN

\* pd.to_datetime on one cell, errors="raise": whether it raises.
DatetimeRaises(cell) ==
    ~ (cell = <<>> \/ (Len(cell) = 1 /\ cell[1] \in {"2025-01-06", "2025-01-08", ""}))

\* pd.to_datetime on one cell that does not raise: the day, or NaT.
ToDatetime(cell) ==
    IF cell = <<"2025-01-06">> THEN 0
    ELSE IF cell = <<"2025-01-08">> THEN 2
    ELSE NaT

\* ------------------------------------------------------------- raw files
\* Column names, as token sequences.
ColTimestamp == <<"timestamp">>
ColKwh       == <<"kwh">>
ColCombined  == <<"timestamp", ",", "kwh">>
ColTsOnly    == <<"timestamp", "_", "utc">>
ColKwhOnly   == <<"kwh", "_", "total">>
ColOther     == <<"reading">>

\* "timestamp" in str(single_col): substring test on a column name.
Contains(col, token) == \E i \in DOMAIN col : col[i] = token

\* What pd.read_csv makes of a file: it raises, or yields columns and rows.
\* A row is a tuple of cells, one per column.
VanishedFile   == [read |-> "missing", cols |-> <<>>, rows |-> <<>>]
UnreadableFile == [read |-> "error",   cols |-> <<>>, rows |-> <<>>]

CombinedCells == { <<"2025-01-06", "2">>, <<"2025-01-08">> }

TwoColRows == { << <<t>>, <<k>> >> : t \in TsTexts, k \in KwhTexts }

ValidFiles ==
    { [read |-> "ok", cols |-> <<ColTimestamp, ColKwh>>, rows |-> rs] :
        rs \in {<<>>} \cup { <<r>> : r \in TwoColRows } }

CombinedFiles ==
    { [read |-> "ok", cols |-> <<ColCombined>>, rows |-> rs] :
        rs \in {<<>>} \cup { << <<c>> >> : c \in CombinedCells }
                      \cup { << <<c>>, <<d>> >> : c \in CombinedCells, d \in CombinedCells } }

OneColumnFiles ==
    { [read |-> "ok", cols |-> <<c>>, rows |-> << << <<"2025-01-06", "2">> >> >>] :
        c \in {ColTimestamp, ColTsOnly, ColKwhOnly, ColOther} }

TwoColumnInvalidFiles ==
    { [read |-> "ok", cols |-> cs, rows |-> << << <<"2025-01-06">>, <<"2">> >> >>] :
        cs \in { <<ColTimestamp, ColOther>>, <<ColOther, ColKwh>> } }

FileContents ==
    {VanishedFile, UnreadableFile} \cup ValidFiles \cup CombinedFiles
        \cup OneColumnFiles \cup TwoColumnInvalidFiles

\* The stems a directory of at most MaxFiles files may hold.
Directories ==
    { S \in SUBSET Range(StemPool) : Cardinality(S) <= MaxFiles }

\* ------------------------------------------------------------- ingestion
\* The repair test as a bug would have it: one substring is enough.
NeedsRepairEitherSubstring(cols) ==
    /\ (ColTimestamp \notin Range(cols) \/ ColKwh \notin Range(cols))
    /\ Len(cols) = 1
    /\ (Contains(cols[1], "timestamp") \/ Contains(cols[1], "kwh"))

\* Lines 28 and 30: one column, not both required names, both substrings.
NeedsRepair(cols) ==
    /\ (ColTimestamp \notin Range(cols) \/ ColKwh \notin Range(cols))
    /\ Len(cols) = 1
    /\ Contains(cols[1], "timestamp") /\ Contains(cols[1], "kwh")

\* str.split(",", n=1) on one cell: the parts, each a cell again.  The text
\* after the first comma stays one value, further commas included.
SplitFirstComma(cell) ==
    IF Len(cell) <= 1 THEN <<cell>> ELSE << <<cell[1]>>, Tail(cell) >>

\* Columns of str.split(..., expand=True): the widest row's part count.
SplitWidth(rows) ==
    IF rows = <<>> THEN 0
    ELSE MaxOf({ Len(SplitFirstComma(rows[i][1])) : i \in DOMAIN rows })

\* df[["timestamp", "kwh"]] = <split> raises ValueError unless the split has
\* exactly two columns.
RepairRaises(rows) == SplitWidth(rows) # 2

\* The repaired rows: timestamp and kwh cells; a row without a comma gets
\* None (the empty cell) as kwh.
RepairedRows(rows) ==
    [ i \in DOMAIN rows |->
        LET parts == SplitFirstComma(rows[i][1])
        IN  << parts[1], IF Len(parts) = 2 THEN parts[2] ELSE <<>> >> ]

\* The gate as a bug would have it: one required column is enough.
HasRequiredColumnsEither(cols) ==
    ColTimestamp \in Range(cols) \/ ColKwh \in Range(cols)

\* Line 42, negated: both required columns are present.
HasRequiredColumns(cols) ==
    ColTimestamp \in Range(cols) /\ ColKwh \in Range(cols)

ColumnIndex(cols, c) == CHOOSE i \in DOMAIN cols : cols[i] = c

\* Lines 38-39, 46-48 and the concat of line 57: kwh made numeric, rows
\* tagged with building and month; a column the frame lacks is NaN in the
\* concatenated dataset.
TaggedFrame(name_parts, cols, rows) ==
    [ i \in DOMAIN rows |->
        [ timestamp |-> IF ColTimestamp \in Range(cols)
                        THEN rows[i][ColumnIndex(cols, ColTimestamp)] ELSE <<"">>,
          kwh       |-> IF ColKwh \in Range(cols)
                        THEN ToNumeric(rows[i][ColumnIndex(cols, ColKwh)]) ELSE NaN,
          building  |-> BuildingOf(name_parts),
          month     |-> MonthOf(name_parts) ] ]

LogEntry(kind, name_parts) == [kind |-> kind, file |-> name_parts]

\* The iteration as a bug would have it: no "continue" after the gate's log
\* entry, so the rejected file's frame (no usable rows) is appended too.
LoadOutcomeLogAndAppend(name_parts, content) ==
    LET repair == content.read = "ok" /\ NeedsRepair(content.cols)
        cols   == IF repair THEN <<ColTimestamp, ColKwh>> ELSE content.cols
        rows   == IF repair /\ ~RepairRaises(content.rows)
                  THEN RepairedRows(content.rows) ELSE content.rows
    IN  IF content.read = "missing"
        THEN [log |-> <<LogEntry("Missing file", name_parts)>>, frame |-> <<>>,
              repaired |-> FALSE, gate |-> <<>>]
        ELSE IF content.read = "error" \/ (repair /\ RepairRaises(content.rows))
        THEN [log |-> <<LogEntry("Error reading", name_parts)>>, frame |-> <<>>,
              repaired |-> repair, gate |-> <<>>]
        ELSE IF ~HasRequiredColumns(cols)
        THEN [log |-> <<LogEntry("Invalid columns in", name_parts)>>,
              frame |-> << <<>> >>, repaired |-> repair, gate |-> <<cols>>]
        ELSE [log |-> <<>>, frame |-> <<TaggedFrame(name_parts, cols, rows)>>,
              repaired |-> repair, gate |-> <<cols>>]

\* One iteration of the loop of load_all_csvs on one file: what it appends
\* to logs and to all_rows, whether the repair ran, and the columns the
\* validation gate saw (<<>> when the iteration never reached the gate).
LoadOutcome(name_parts, content) ==
    LET repair == content.read = "ok" /\ NeedsRepair(content.cols)
        cols   == IF repair THEN <<ColTimestamp, ColKwh>> ELSE content.cols
        rows   == IF repair /\ ~RepairRaises(content.rows)
                  THEN RepairedRows(content.rows) ELSE content.rows
    IN  IF content.read = "missing"
        THEN [log |-> <<LogEntry("Missing file", name_parts)>>, frame |-> <<>>,
              repaired |-> FALSE, gate |-> <<>>]
        ELSE IF content.read = "error" \/ (repair /\ RepairRaises(content.rows))
        THEN [log |-> <<LogEntry("Error reading", name_parts)>>, frame |-> <<>>,
              repaired |-> repair, gate |-> <<>>]
        ELSE IF ~HasRequiredColumns(cols)
        THEN [log |-> <<LogEntry("Invalid columns in", name_parts)>>, frame |-> <<>>,
              repaired |-> repair, gate |-> <<cols>>]
        ELSE [log |-> <<>>, frame |-> <<TaggedFrame(name_parts, cols, rows)>>,
              repaired |-> repair, gate |-> <<cols>>]


\* ------------------------------------------------------------ preprocess
\* sort_values("timestamp"): a comes strictly before b; NaT sorts last.
Before(a, b) ==
    a.timestamp # NaT /\ (b.timestamp = NaT \/ a.timestamp < b.timestamp)

IsSorted(df) ==
    \A i, j \in DOMAIN df : i < j => ~Before(df[j], df[i])

\* Every order sort_values may leave the rows at the indices I in: rows with
\* equal timestamps in any order (the default sort is not stable).
RECURSIVE SortedArrangements(_, _)
SortedArrangements(df, I) ==
    IF I = {} THEN {<<>>}
    ELSE UNION { { <<df[i]>> \o rest : rest \in SortedArrangements(df, I \ {i}) } :
                 i \in { k \in I : \A j \in I : ~Before(df[j], df[k]) } }

\* Line 62: to_datetime raises on the first cell it cannot parse.
PreprocessRaises(df) ==
    \E i \in DOMAIN df : DatetimeRaises(df[i].timestamp)

\* Lines 62-64: the rows with their timestamps parsed, before the sort.
WithDatetimes(df) ==
    [ i \in DOMAIN df |-> [df[i] EXCEPT !.timestamp = ToDatetime(df[i].timestamp)] ]

\* preprocess as a bug would have it: the sort left out.
PreprocessResultsUnsorted(df) == { WithDatetimes(df) }

\* Lines 62-65: every dataset preprocess may return.

PreprocessResults(df) ==
    SortedArrangements(WithDatetimes(df), DOMAIN df)

\* ----------------------------------------------------------- aggregation
\* The group keys of groupby("building"), sorted.
GroupKeys(df) ==
    LET present(b) == \E i \in DOMAIN df : df[i].building = b
    IN  SelectSeq(BuildingOrder, present)

Group(df, b) ==
    LET mine(r) == r.building = b
    IN  SelectSeq(df, mine)

\* Series.sum() / GroupBy.sum(): NaN is skipped, the empty sum is 0.
SumSkipNa(kwhs) ==
    LET present(v) == v # NaN
    IN  SumSeq(SelectSeq(kwhs, present))

Kwhs(g) == [ i \in DOMAIN g |-> g[i].kwh ]

\* Days of the group's rows that have a timestamp.
DatedDays(g) == { g[i].timestamp : i \in { k \in DOMAIN g : g[k].timestamp # NaT } }

\* resample("W-MON"): weekly bins end on Monday, closed and labelled on the
\* right: day d falls in the bin labelled by the first Monday on or after d
\* (day 0 is a Monday).
WeekLabel(d) == d + ((7 - (d % 7)) % 7)

\* The label of the bin day d falls in: resample("D") bins are the days.
BinLabel(rule, d) == IF rule = "W-MON" THEN WeekLabel(d) ELSE d

\* Days from one bin label to the next.
BinStep(rule) == IF rule = "W-MON" THEN 7 ELSE 1

\* One group resampled and summed, as a bug would have it: empty bins dropped.
ResampleSumDroppingEmptyBins(g, b, rule) ==
    LET labels == { BinLabel(rule, d) : d \in DatedDays(g) }
        first  == MinOf(labels)
        last   == MaxOf(labels)
        all    == [ k \in 1 .. ((last - first) \div BinStep(rule)) + 1 |->
                    LET lab == first + (k - 1) * BinStep(rule)
                        inbin(r) == r.timestamp # NaT /\ BinLabel(rule, r.timestamp) = lab
                    IN  [building |-> b, timestamp |-> lab,
                         kwh |-> SumSkipNa(Kwhs(SelectSeq(g, inbin)))] ]
        kept(row) == row.timestamp \in labels
    IN  SelectSeq(all, kept)

\* One group resampled and summed: a bin for every label from the first
\* dated row's to the last dated row's, empty bins included (their sum is
\* 0); rows with NaT are in no bin.
ResampleSum(g, b, rule) ==
    LET labels == { BinLabel(rule, d) : d \in DatedDays(g) }
        first  == MinOf(labels)
        last   == MaxOf(labels)
    IN  [ k \in 1 .. ((last - first) \div BinStep(rule)) + 1 |->
            LET lab == first + (k - 1) * BinStep(rule)
                inbin(r) == r.timestamp # NaT /\ BinLabel(rule, r.timestamp) = lab
            IN  [building |-> b, timestamp |-> lab,
                 kwh |-> SumSkipNa(Kwhs(SelectSeq(g, inbin)))] ]

\* A group whose timestamps are all NaT has no first bin: date_range raises.
ResampleRaises(df) ==
    \E i \in DOMAIN GroupKeys(df) : DatedDays(Group(df, GroupKeys(df)[i])) = {}

\* groupby("building")["kwh"].resample(rule).sum().reset_index()
GroupByResampleSum(df, rule) ==
    LET keys == GroupKeys(df)
    IN  Flatten([ i \in DOMAIN keys |-> ResampleSum(Group(df, keys[i]), keys[i], rule) ])

\* Line 69.
DailyTotals(df) == GroupByResampleSum(df, "D")

\* Line 74.
WeeklyAggregates(df) == GroupByResampleSum(df, "W-MON")

\* The summary row as a bug would have it: rows without timestamp left out.
SummaryRowDatedOnly(g, b) ==
    LET dated(r) == r.timestamp # NaT
        present(v) == v # NaN
        vals == SelectSeq(Kwhs(SelectSeq(g, dated)), present)
    IN  [ building |-> b,
          mean  |-> [sum |-> SumSeq(vals), count |-> Len(vals)],
          min   |-> IF vals = <<>> THEN NaN ELSE MinOf(Range(vals)),
          max   |-> IF vals = <<>> THEN NaN ELSE MaxOf(Range(vals)),
          total |-> SumSeq(vals) ]

\* Lines 79-81: mean, min, max and sum of each group's kwh, NaN skipped.  The
\* mean is kept as the pair it is the quotient of; an all-NaN group has mean,
\* min and max NaN and total 0.
SummaryRow(g, b) ==
    LET present(v) == v # NaN
        vals == SelectSeq(Kwhs(g), present)
    IN  [ building |-> b,
          mean  |-> [sum |-> SumSeq(vals), count |-> Len(vals)],
          min   |-> IF vals = <<>> THEN NaN ELSE MinOf(Range(vals)),
          max   |-> IF vals = <<>> THEN NaN ELSE MaxOf(Range(vals)),
          total |-> SumSkipNa(Kwhs(g)) ]

BuildingWiseSummary(df) ==
    LET keys == GroupKeys(df)
    IN  [ i \in DOMAIN keys |-> SummaryRow(Group(df, keys[i]), keys[i]) ]

\* ----------------------------------------------------------------- state
VARIABLES
    dir_exists,     \* DATA_DIR.exists()
    files,          \* the directory: name parts of each csv |-> what read_csv makes of it
    pc,             \* where main() is
    error,          \* the exception that left main(), "" while none has
    pending,        \* files the glob loop has not visited yet
    all_rows,       \* load_all_csvs: the accumulated frames
    logs,           \* load_all_csvs: the issue log
    processed,      \* history: files in the order the loop visited them
    contributed,    \* history: the file behind each frame of all_rows
    repaired,       \* history: files the single-column repair was applied to
    gate,           \* history: <<file, columns>> seen by the validation gate
    ingestion_log,  \* main: the lines written to ingestion_log.txt
    df_pre,         \* main: the dataset preprocess returned
    daily_df,       \* main: calculate_daily_totals' table
    weekly_df,      \* main: calculate_weekly_aggregates' table
    building_summary_df,  \* main: building_wise_summary's table
    calls           \* history: the functions main() has entered

vars == <<dir_exists, files, pc, error, pending, all_rows, logs, processed,
          contributed, repaired, gate, ingestion_log, df_pre, daily_df,
          weekly_df, building_summary_df, calls>>

loadVars == <<all_rows, logs, processed, contributed, repaired, gate>>
tableVars == <<df_pre, daily_df, weekly_df, building_summary_df>>

Init ==
    /\ dir_exists \in BOOLEAN
    /\ \E D \in Directories :
          files \in [ (IF dir_exists THEN D ELSE {}) -> FileContents ]
    /\ pc = "main"
    /\ error = ""
    /\ pending = {}
    /\ all_rows = <<>>
    /\ logs = <<>>
    /\ processed = <<>>
    /\ contributed = <<>>
    /\ repaired = {}
    /\ gate = {}
    /\ ingestion_log = <<>>
    /\ df_pre = <<>>
    /\ daily_df = <<>>
    /\ weekly_df = <<>>
    /\ building_summary_df = <<>>
    /\ calls = {}

\* main, lines 190-193: the directory check, then the call of load_all_csvs.
CheckDataDir ==
    /\ pc = "main"
    /\ IF dir_exists
       THEN /\ pc' = "load"
            /\ error' = error
            /\ pending' = DOMAIN files
            /\ calls' = calls \cup {"load_all_csvs"}
       ELSE /\ pc' = "raised"
            /\ error' = "Data directory does not exist"
            /\ UNCHANGED <<pending, calls>>
    /\ UNCHANGED <<dir_exists, files, ingestion_log>>
    /\ UNCHANGED loadVars
    /\ UNCHANGED tableVars

\* load_all_csvs, lines 13-52: one iteration of the loop, on any file the
\* glob has not yielded yet (glob order is arbitrary).
LoadFile ==
    /\ pc = "load"
    /\ \E f \in pending :
        LET out == LoadOutcome(f, files[f])
        IN  /\ pending' = pending \ {f}
            /\ logs' = logs \o out.log
            /\ all_rows' = all_rows \o out.frame
            /\ processed' = Append(processed, f)
            /\ contributed' = IF out.frame = <<>> THEN contributed
                              ELSE Append(contributed, f)
            /\ repaired' = IF out.repaired THEN repaired \cup {f} ELSE repaired
            /\ gate' = IF out.gate = <<>> THEN gate
                       ELSE gate \cup {<<f, out.gate[1]>>}
    /\ UNCHANGED <<dir_exists, files, pc, error, ingestion_log, calls>>
    /\ UNCHANGED tableVars

\* Line 54 as a bug would have it: the emptiness check left out.
NoFramesNever(frames) == FALSE

\* Line 54: not all_rows.
NoFrames(frames) == frames = <<>>

\* load_all_csvs, lines 54-58: after the loop, fail on no frames, else concat.
FinishLoad ==
    /\ pc = "load"
    /\ pending = {}
    /\ IF NoFrames(all_rows)
       THEN /\ pc' = "raised"
            /\ error' = "No valid CSV files found"
       ELSE /\ pc' = "log"
            /\ error' = error
    /\ UNCHANGED <<dir_exists, files, pending, ingestion_log, calls>>
    /\ UNCHANGED loadVars
    /\ UNCHANGED tableVars

\* main, lines 196-202: the issue log goes to ingestion_log.txt, if any.
WriteIngestionLog ==
    /\ pc = "log"
    /\ ingestion_log' = IF logs # <<>> THEN logs ELSE ingestion_log
    /\ pc' = "preprocess"
    /\ UNCHANGED <<dir_exists, files, error, pending, calls>>
    /\ UNCHANGED loadVars
    /\ UNCHANGED tableVars

\* main, line 205: preprocess(df_combined), df_combined being the concat of
\* all_rows (line 57).
Preprocess ==
    /\ pc = "preprocess"
    /\ calls' = calls \cup {"preprocess"}
    /\ IF PreprocessRaises(Flatten(all_rows))
       THEN /\ pc' = "raised"
            /\ error' = "to_datetime: unparseable timestamp"
            /\ df_pre' = df_pre
       ELSE /\ pc' = "daily"
            /\ error' = error
            /\ df_pre' \in PreprocessResults(Flatten(all_rows))
    /\ UNCHANGED <<dir_exists, files, pending, ingestion_log>>
    /\ UNCHANGED loadVars
    /\ UNCHANGED <<daily_df, weekly_df, building_summary_df>>

\* main, line 206.
CalculateDailyTotals ==
    /\ pc = "daily"
    /\ calls' = calls \cup {"calculate_daily_totals"}
    /\ IF ResampleRaises(df_pre)
       THEN /\ pc' = "raised"
            /\ error' = "resample: no timestamp in a group"
            /\ daily_df' = daily_df
       ELSE /\ pc' = "weekly"
            /\ error' = error
            /\ daily_df' = DailyTotals(df_pre)
    /\ UNCHANGED <<dir_exists, files, pending, ingestion_log>>
    /\ UNCHANGED loadVars
    /\ UNCHANGED <<df_pre, weekly_df, building_summary_df>>

\* main, line 207.
CalculateWeeklyAggregates ==
    /\ pc = "weekly"
    /\ calls' = calls \cup {"calculate_weekly_aggregates"}
    /\ IF ResampleRaises(df_pre)
       THEN /\ pc' = "raised"
            /\ error' = "resample: no timestamp in a group"
            /\ weekly_df' = weekly_df
       ELSE /\ pc' = "summary"
            /\ error' = error
            /\ weekly_df' = WeeklyAggregates(df_pre)
    /\ UNCHANGED <<dir_exists, files, pending, ingestion_log>>
    /\ UNCHANGED loadVars
    /\ UNCHANGED <<df_pre, daily_df, building_summary_df>>

\* main, line 208.
CalculateBuildingSummary ==
    /\ pc = "summary"
    /\ calls' = calls \cup {"building_wise_summary"}
    /\ building_summary_df' = BuildingWiseSummary(df_pre)
    /\ pc' = "aggregated"
    /\ UNCHANGED <<dir_exists, files, error, pending, ingestion_log>>
    /\ UNCHANGED loadVars
    /\ UNCHANGED <<df_pre, daily_df, weekly_df>>

Next ==
    \/ CheckDataDir
    \/ LoadFile
    \/ FinishLoad
    \/ WriteIngestionLog
    \/ Preprocess
    \/ CalculateDailyTotals
    \/ CalculateWeeklyAggregates
    \/ CalculateBuildingSummary

Spec == Init /\ [][Next]_vars

\* --------------------------------------------- the aggregation engine alone
\* Normalized datasets as preprocess returns them: rows sorted by timestamp,
\* NaT last, at most MaxReadings of them.
AggDays == {0, 6, 7}

AggReadings ==
    [ timestamp : AggDays \cup {NaT},
      kwh       : {1, 2, NaN},
      building  : Range(BuildingOrder),
      month     : {"2025-01"} ]

NormalizedDatasets ==
    UNION { { df \in [1 .. n -> AggReadings] : IsSorted(df) } : n \in 0 .. MaxReadings }

AggInit ==
    /\ dir_exists = TRUE
    /\ files = <<>>
    /\ pc = "daily"
    /\ error = ""
    /\ pending = {}
    /\ all_rows = <<>>
    /\ logs = <<>>
    /\ processed = <<>>
    /\ contributed = <<>>
    /\ repaired = {}
    /\ gate = {}
    /\ ingestion_log = <<>>
    /\ df_pre \in NormalizedDatasets
    /\ daily_df = <<>>
    /\ weekly_df = <<>>
    /\ building_summary_df = <<>>
    /\ calls = {"load_all_csvs", "preprocess"}

AggNext ==
    \/ CalculateDailyTotals
    \/ CalculateWeeklyAggregates
    \/ CalculateBuildingSummary

AggSpec == AggInit /\ [][AggNext]_vars

\* ================================================================ claims
\* Sum of f over the finite set S.
RECURSIVE SumOver(_, _)
SumOver(S, f) ==
    IF S = {} THEN 0
    ELSE LET x == CHOOSE y \in S : TRUE IN f[x] + SumOver(S \ {x}, f)

Buildings == Range(BuildingOrder)
AllDays == MinOf(AggDays) .. MaxOf(AggDays)

DailyDone   == pc \in {"weekly", "summary", "aggregated"}
WeeklyDone  == pc \in {"summary", "aggregated"}
SummaryDone == pc = "aggregated"

\* Rows of the dataset: of building b, and of building b on day d.
ReadingsOf(b) == { i \in DOMAIN df_pre : df_pre[i].building = b }
ReadingsOn(b, d) == { i \in ReadingsOf(b) : df_pre[i].timestamp = d }
Numeric(I) == { i \in I : df_pre[i].kwh # NaN }
KwhOf == [ i \in DOMAIN df_pre |-> df_pre[i].kwh ]

DailyRows(b, d) ==
    { i \in DOMAIN daily_df : daily_df[i].building = b /\ daily_df[i].timestamp = d }
DailyRowsOf(b) == { i \in DOMAIN daily_df : daily_df[i].building = b }
DailyKwh == [ i \in DOMAIN daily_df |-> daily_df[i].kwh ]

\* Day d lies between b's first and last day with a reading (inclusive).
Spans(b, d) ==
    \E i, j \in ReadingsOf(b) :
        /\ df_pre[i].timestamp # NaT /\ df_pre[j].timestamp # NaT
        /\ df_pre[i].timestamp <= d /\ d <= df_pre[j].timestamp

WeekStart(d) == d - (d % 7)

WeeklyRows(b, w) ==
    { i \in DOMAIN weekly_df : weekly_df[i].building = b /\ weekly_df[i].timestamp = w }

\* C2, as stated: every reading is counted in the weekly bucket labelled by
\* the Monday on or before its day, which holds the readings from that
\* Monday up to, not including, the next one.
C2_WeekStartsMonday ==
    WeeklyDone =>
        \A b \in Buildings :
            /\ \A i \in ReadingsOf(b) :
                  df_pre[i].timestamp # NaT =>
                      WeeklyRows(b, WeekStart(df_pre[i].timestamp)) # {}
            /\ \A k \in DOMAIN weekly_df :
                  weekly_df[k].building = b =>
                      weekly_df[k].kwh =
                          SumOver(Numeric({ i \in ReadingsOf(b) :
                                              /\ df_pre[i].timestamp # NaT
                                              /\ WeekStart(df_pre[i].timestamp)
                                                     = weekly_df[k].timestamp }),
                                  KwhOf)

SummaryRows(b) ==
    { i \in DOMAIN building_summary_df : building_summary_df[i].building = b }

Processed == Range(processed)
Contributed == Range(contributed)
LogsOf(f) == { i \in DOMAIN logs : logs[i].file = f }
FramesOf(f) == { i \in DOMAIN contributed : contributed[i] = f }
Logged(kind, f) == LogEntry(kind, f) \in Range(logs)

FatalErrors == {"Data directory does not exist", "No valid CSV files found"}

\* C3, as stated: the only errors that leave main are "input directory
\* absent" and "no valid input"; no problem of one file or one row does.
C3_OnlyFatalErrorsPropagate ==
    pc = "raised" => error \in FatalErrors

AggregationCalls ==
    {"preprocess", "calculate_daily_totals", "calculate_weekly_aggregates",
     "building_wise_summary"}

LoadReturned == dir_exists /\ pc \notin {"main", "load"}

\* C5: once the loop is over with every discovered file skipped (or none
\* discovered), main ends with the "no valid input" error and runs none of
\* the aggregation functions; and that error comes with no accumulated frame
\* only.
C5_NoValidInputIsFatal ==
    /\ (LoadReturned /\ \A f \in DOMAIN files : LogsOf(f) # {}) =>
          /\ pc = "raised" /\ error = "No valid CSV files found"
          /\ calls \cap AggregationCalls = {}
          /\ df_pre = <<>> /\ daily_df = <<>> /\ weekly_df = <<>>
          /\ building_summary_df = <<>>
    /\ error = "No valid CSV files found" =>
          /\ all_rows = <<>>
          /\ \A f \in DOMAIN files : LogsOf(f) # {}

\* C5's case: files were discovered, every one was skipped, and main raised.
C5_Witness ==
    /\ error = "No valid CSV files found"
    /\ Cardinality(DOMAIN files) > 1
    /\ Len(logs) = Cardinality(DOMAIN files)

OneColumn(f) == files[f].read = "ok" /\ Len(files[f].cols) = 1
BothSubstrings(f) ==
    Contains(files[f].cols[1], "timestamp") /\ Contains(files[f].cols[1], "kwh")

\* C8: the single-column repair runs only on a one-column file whose column
\* name contains both "timestamp" and "kwh"; a one-column file whose name
\* lacks either is not repaired, is logged as "Invalid columns" and
\* contributes no frame.
C8_RepairOnlyOnCombinedColumn ==
    /\ \A f \in repaired : OneColumn(f) /\ BothSubstrings(f)
    /\ \A f \in Processed :
          (OneColumn(f) /\ ~BothSubstrings(f)) =>
              /\ f \notin repaired
              /\ Logged("Invalid columns in", f)
              /\ FramesOf(f) = {}

\* C8's case: a repaired combined-column file next to a one-column file
\* whose name holds only one of the substrings.
C8_Witness ==
    /\ \E f \in repaired : FramesOf(f) # {}
    /\ \E f \in Processed :
          /\ OneColumn(f) /\ ~BothSubstrings(f)
          /\ (Contains(files[f].cols[1], "timestamp") \/ Contains(files[f].cols[1], "kwh"))

IsPrefix(s, t) == Len(s) <= Len(t) /\ \A i \in DOMAIN s : s[i] = t[i]

\* C10: after every iteration each visited file has either one frame and no
\* log entry or no frame and one log entry, the log lists the skipped files
\* in the order they were visited, and an iteration only appends to the log
\* and to the accumulated frames.
C10_OneOutcomePerFile ==
    /\ [](/\ \A f \in Processed :
                \/ Cardinality(FramesOf(f)) = 1 /\ LogsOf(f) = {}
                \/ FramesOf(f) = {} /\ Cardinality(LogsOf(f)) = 1
          /\ Len(all_rows) = Len(contributed)
          /\ \A i \in DOMAIN logs : logs[i].file \in Processed
          /\ LET skipped(f) == FramesOf(f) = {}
             IN  [ i \in DOMAIN logs |-> logs[i].file ] = SelectSeq(processed, skipped))
    /\ [][IsPrefix(logs, logs') /\ IsPrefix(all_rows, all_rows')]_vars

\* C10's case: two iterations done, one file skipped and one loaded.
C10_Witness ==
    /\ Len(processed) = 2
    /\ Len(logs) = 1 /\ logs[1].file = processed[2]
    /\ Len(all_rows) = 1 /\ contributed = <<processed[1]>>

\* --------------------------------------------------- missing kwh, ordering
\* The kwh text of row i of file f, as the file holds it: the second cell,
\* or in a combined-column file all that follows the first comma.
RawKwh(f, i) ==
    IF Len(files[f].cols) = 1 THEN Tail(files[f].rows[i][1])
    ELSE files[f].rows[i][2]

SummaryRow1(b) == building_summary_df[CHOOSE i \in SummaryRows(b) : TRUE]

WeeklyRowsOf(b) == { i \in DOMAIN weekly_df : weekly_df[i].building = b }
WeeklyKwh == [ i \in DOMAIN weekly_df |-> weekly_df[i].kwh ]
Dated(I) == { i \in I : df_pre[i].timestamp # NaT }

\* C7: a kwh text that is no number becomes NaN in the loaded frame (not 0),
\* its row is kept and its file is not logged; the daily and weekly sums and
\* the summary's mean, min, max and total are those of the numeric readings
\* alone, and a bucket with only missing readings sums to 0.
C7_UnparseableKwhIsMissing ==
    /\ \A k \in DOMAIN contributed :
          LET f == contributed[k]
          IN  /\ Len(all_rows[k]) = Len(files[f].rows)
              /\ LogsOf(f) = {}
              /\ \A i \in DOMAIN all_rows[k] :
                    all_rows[k][i].kwh = (IF RawKwh(f, i) = <<"2">> THEN 2 ELSE NaN)
    /\ \A f \in Processed :
          files[f].read = "ok" /\ files[f].cols = <<ColTimestamp, ColKwh>>
              => FramesOf(f) # {}
    /\ DailyDone =>
          \A i \in DOMAIN daily_df :
              daily_df[i].kwh =
                  SumOver(Numeric(ReadingsOn(daily_df[i].building, daily_df[i].timestamp)),
                          KwhOf)
    /\ WeeklyDone =>
          \A b \in Buildings :
              SumOver(WeeklyRowsOf(b), WeeklyKwh) = SumOver(Numeric(Dated(ReadingsOf(b))), KwhOf)
    /\ SummaryDone =>
          \A b \in Buildings :
              SummaryRows(b) # {} =>
                  LET num == Numeric(ReadingsOf(b))
                      row == SummaryRow1(b)
                  IN  /\ row.total = SumOver(num, KwhOf)
                      /\ row.mean = [sum |-> SumOver(num, KwhOf), count |-> Cardinality(num)]
                      /\ row.min = (IF num = {} THEN NaN ELSE MinOf({ KwhOf[i] : i \in num }))
                      /\ row.max = (IF num = {} THEN NaN ELSE MaxOf({ KwhOf[i] : i \in num }))

\* C7's case: a building with a numeric and an unparseable kwh on one day,
\* loaded from the files and carried through every aggregate.
C7_Witness ==
    /\ SummaryDone
    /\ \E k \in DOMAIN contributed : \E i \in DOMAIN all_rows[k] :
          RawKwh(contributed[k], i) = <<"N/A">> /\ all_rows[k][i].kwh = NaN
    /\ \E b \in Buildings, d \in AllDays :
          /\ Numeric(ReadingsOn(b, d)) # {}
          /\ Numeric(ReadingsOn(b, d)) # ReadingsOn(b, d)
          /\ SummaryRow1(b).mean = [sum |-> 2, count |-> 1]

Occurrences(s, x) == Cardinality({ i \in DOMAIN s : s[i] = x })
SameRows(s, t) ==
    /\ Len(s) = Len(t)
    /\ \A x \in Range(s) \cup Range(t) : Occurrences(s, x) = Occurrences(t, x)

\* The dataset the files give when they are loaded in the order of StemPool.
CanonicalRows ==
    WithDatetimes(Flatten([ k \in DOMAIN StemPool |->
        IF StemPool[k] \in DOMAIN files
        THEN Flatten(LoadOutcome(StemPool[k], files[StemPool[k]]).frame)
        ELSE <<>> ]))

\* A stable insertion sort by timestamp, NaT last.
RECURSIVE InsertByTimestamp(_, _)
InsertByTimestamp(s, r) ==
    IF s = <<>> THEN <<r>>
    ELSE IF Before(r, Head(s)) THEN <<r>> \o s
    ELSE <<Head(s)>> \o InsertByTimestamp(Tail(s), r)

RECURSIVE SortByTimestamp(_)
SortByTimestamp(s) ==
    IF s = <<>> THEN <<>>
    ELSE InsertByTimestamp(SortByTimestamp(SubSeq(s, 1, Len(s) - 1)), s[Len(s)])

PreprocessDone == pc \in {"daily", "weekly", "summary", "aggregated"}

\* C9: whatever the order the files were loaded in, the dataset preprocess
\* returns is sorted by timestamp and holds the same rows, and the daily,
\* weekly and summary tables are the same.
C9_LoadOrderDoesNotMatter ==
    PreprocessDone =>
        LET canonical == SortByTimestamp(CanonicalRows)
        IN  /\ IsSorted(df_pre) /\ SameRows(df_pre, canonical)
            /\ DailyDone => daily_df = DailyTotals(canonical)
            /\ WeeklyDone => weekly_df = WeeklyAggregates(canonical)
            /\ SummaryDone => building_summary_df = BuildingWiseSummary(canonical)

\* C9's case: two files loaded against the order of StemPool, their rows
\* accumulated out of timestamp order, and every table computed.
C9_Witness ==
    /\ SummaryDone
    /\ Len(contributed) = 2
    /\ \E i, j \in DOMAIN StemPool :
          i > j /\ contributed[1] = StemPool[i] /\ contributed[2] = StemPool[j]
    /\ ~IsSorted(WithDatetimes(Flatten(all_rows)))
    /\ IsSorted(df_pre)

====
